---- MODULE Spec2Model ----
(***************************************************************************)
(* Model of tools/TrainDBCliModelRunner.py: the plugin loader              *)
(* (_load_module), the four dispatcher operations of                       *)
(* TrainDBCliModelRunner and the command-line script that drives them.     *)
(* One behaviour is a sequence of CLI processes run one after the other    *)
(* against the same filesystem.                                            *)
(***************************************************************************)
EXTENDS Integers, Sequences, FiniteSets, TLC

VARIABLES
  run,         \* number of CLI processes started so far
  pc,          \* position of the current process in the script
  args,        \* parsed arguments and the input files' contents
  mod,         \* <<>> or <<module object>> returned by _load_module
  sysModules,  \* names registered in the process' module registry by the loader
  loads,       \* number of _load_module calls of the current process
  allLoads,    \* number of module objects created over all processes
  moduleIds,   \* identities of the module objects returned by the loader
  instance,    \* <<>> or <<plugin instance>>
  calls,       \* the calls made on the plugin by the current process, in order
  pluginRet,   \* <<>> or <<value returned by the plugin's last capability>>
  result,      \* <<>> or <<value returned by the dispatcher method>>
  error,       \* exception type that ended the process, or "none"
  failedStep,  \* the step that raised it, or "none"
  exitCode,    \* -1 while running, then the exit status
  stdout,      \* what the current process printed
  written,     \* output files the current process wrote
  files,       \* filesystem: output files
  artifact,    \* filesystem: model artifact at each model_path
  pycache      \* filesystem: source locations with a bytecode cache file

ctlVars    == <<run, pc, args, error, failedStep, exitCode>>
loaderVars == <<mod, sysModules, loads, allLoads, moduleIds>>
pluginVars == <<instance, calls, pluginRet>>
outVars    == <<result, stdout, written>>
fsVars     == <<files, artifact, pycache>>
vars       == <<ctlVars, loaderVars, pluginVars, outVars, fsVars>>

----------------------------------------------------------------------------
(* Bounds *)
MaxRuns == 2
MaxRows == 2

----------------------------------------------------------------------------
(* Inputs *)
Commands     == {"train", "synopsis", "infer", "list", "none"}
ClassNames   == {"M", "N"}
Locations    == {"plug.py", "missing.py", "missing", "bad.py", "locked.py"}
ModelPaths   == {"p1", "p2"}
OptionNames  == {"epochs", "bogus"}
AggExprs     == {"COUNT(*)", "SUM(x)"}
GroupBys     == {"g"}
Wheres       == {"w"}
OutputFiles  == {"", "out"}
FileNames    == {"out", "p1/train_info.json", "p2/train_info.json"}

Datasets == UNION {[1..n -> {"row"}] : n \in 0..MaxRows}
TableMetadatas ==
  {[has_options |-> FALSE, options |-> {}]} \cup
  {[has_options |-> TRUE, options |-> o] : o \in SUBSET OptionNames}

(* What the filesystem holds at each source location. *)
HasSourceSuffix(path) == path \in {"plug.py", "missing.py", "bad.py", "locked.py"}
FileStatus(path) ==
  CASE path = "plug.py"   -> "ok"
    [] path = "bad.py"    -> "unparsable"
    [] path = "locked.py" -> "unreadable"
    [] OTHER              -> "missing"
DefinedSymbols(path) == IF path = "plug.py" THEN {"M"} ELSE {}

(* The plugin behind the contract. *)
AcceptedOptions == {"epochs"}
AggResults      == {<<>>, << <<"g", "10">> >>, << <<"a", "1">>, <<"b", "2">> >>}
ConfIntervals   == {<< <<"lo", "hi">> >>}
HyperSpecs      == {<<>>, <<"epochs">>}

NoFile == [fmt |-> "absent", text |-> <<>>]
DefaultArgs ==
  [cmd |-> "none", modeltype_class |-> "M", modeltype_uri |-> "plug.py",
   real_data |-> <<>>, table_metadata |-> [has_options |-> TRUE, options |-> {}],
   model_path |-> "p1", row_count |-> 0, agg_expr |-> "COUNT(*)",
   group_by_column |-> "g", where_condition |-> "w", output_file |-> ""]

----------------------------------------------------------------------------
Init ==
  /\ run = 0 /\ pc = "idle" /\ args = DefaultArgs
  /\ error = "none" /\ failedStep = "none" /\ exitCode = -1
  /\ mod = <<>> /\ sysModules = {} /\ loads = 0 /\ allLoads = 0 /\ moduleIds = {}
  /\ instance = <<>> /\ calls = <<>> /\ pluginRet = <<>>
  /\ result = <<>> /\ stdout = <<>> /\ written = {}
  /\ files = [f \in FileNames |-> NoFile]
  /\ artifact = [p \in ModelPaths |-> "absent"]
  /\ pycache = {}

(* An uncaught exception ends the process with a non-zero status. *)
Raise(step, exc) ==
  /\ pc' = "exited" /\ exitCode' = 1 /\ error' = exc /\ failedStep' = step
  /\ UNCHANGED <<run, args>>

Goto(next) ==
  /\ pc' = next
  /\ UNCHANGED <<run, args, error, failedStep, exitCode>>

Call(name, a) == [name |-> name, args |-> a]

(* A new process: argument parsing and the runner's construction. *)
ParsedArgs(c) ==
  CASE c = "train" ->
         {[DefaultArgs EXCEPT !.cmd = c, !.modeltype_class = k, !.modeltype_uri = u,
             !.real_data = d, !.table_metadata = t, !.model_path = p] :
            k \in ClassNames, u \in Locations, d \in Datasets,
            t \in TableMetadatas, p \in ModelPaths}
    [] c = "synopsis" ->
         {[DefaultArgs EXCEPT !.cmd = c, !.modeltype_class = k, !.modeltype_uri = u,
             !.model_path = p, !.row_count = n, !.output_file = "out"] :
            k \in ClassNames, u \in Locations, p \in ModelPaths, n \in 0..MaxRows}
    [] c = "infer" ->
         {[DefaultArgs EXCEPT !.cmd = c, !.modeltype_class = k, !.modeltype_uri = u,
             !.model_path = p, !.agg_expr = a, !.group_by_column = g,
             !.where_condition = w, !.output_file = o] :
            k \in ClassNames, u \in Locations, p \in ModelPaths, a \in AggExprs,
            g \in GroupBys, w \in Wheres, o \in OutputFiles}
    [] c = "list" ->
         {[DefaultArgs EXCEPT !.cmd = c, !.modeltype_class = k, !.modeltype_uri = u,
             !.output_file = "out"] :
            k \in ClassNames, u \in Locations}
    [] OTHER -> {DefaultArgs}

Start ==
  /\ pc \in {"idle", "exited"}
  /\ run < MaxRuns
  /\ run' = run + 1
  /\ \E c \in Commands : args' \in ParsedArgs(c)
  /\ pc' = "parsed"
  /\ error' = "none" /\ failedStep' = "none" /\ exitCode' = -1
  /\ mod' = <<>> /\ sysModules' = {} /\ loads' = 0
  /\ instance' = <<>> /\ calls' = <<>> /\ pluginRet' = <<>>
  /\ result' = <<>> /\ stdout' = <<>> /\ written' = {}
  /\ UNCHANGED <<allLoads, moduleIds, fsVars>>

----------------------------------------------------------------------------
(* Plugin Loader: _load_module *)

(* spec_from_file_location gives no spec for a path without a source suffix, *)
(* and module_from_spec then fails on it; exec_module reads and compiles the *)
(* file.                                                                     *)
LoadOutcome(path) ==
  IF ~HasSourceSuffix(path) THEN "AttributeError"
  ELSE CASE FileStatus(path) = "missing"    -> "FileNotFoundError"
         [] FileStatus(path) = "unreadable" -> "PermissionError"
         [] FileStatus(path) = "unparsable" -> "SyntaxError"
         [] OTHER                           -> "ok"

NewModule(id, name, path) ==
  [id |-> id, name |-> name, origin |-> path, symbols |-> DefinedSymbols(path)]

(* module_from_spec creates the module without entering it in sys.modules. *)
RegisterModuleCached(registry, m) == registry \cup {m.name}
RegisterModule(registry, m) == registry

LoadModule ==
  /\ \/ args.cmd = "train" /\ pc = "read"
     \/ args.cmd \in {"synopsis", "infer", "list"} /\ pc = "parsed"
  /\ loads' = loads + 1
  /\ IF LoadOutcome(args.modeltype_uri) = "ok"
       THEN LET m == NewModule(allLoads + 1, args.modeltype_class, args.modeltype_uri) IN
            /\ mod' = <<m>>
            /\ allLoads' = allLoads + 1
            /\ moduleIds' = moduleIds \cup {m.id}
            /\ sysModules' = RegisterModule(sysModules, m)
            \* the source loader stores the compiled code next to the source
            \* when the interpreter is allowed to and the directory is writable
            /\ pycache' \in {pycache, pycache \cup {args.modeltype_uri}}
            /\ Goto("loaded")
       ELSE /\ Raise("load_module", LoadOutcome(args.modeltype_uri))
            /\ UNCHANGED <<mod, allLoads, moduleIds, sysModules, pycache>>
  /\ UNCHANGED <<pluginVars, outVars, files, artifact>>

HasAttrAlways(m, name) == TRUE
HasAttr(m, name) == name \in m.symbols

----------------------------------------------------------------------------
(* train subcommand and TrainDBCliModelRunner.train_model *)

ReadTrainInputs ==
  /\ args.cmd = "train" /\ pc = "parsed"
  /\ Goto("read")
  /\ UNCHANGED <<loaderVars, pluginVars, outVars, fsVars>>

TrainConstructArgsNone(table_metadata) == {}
TrainConstructArgs(table_metadata) == table_metadata.options

TrainConstruct ==
  /\ args.cmd = "train" /\ pc = "loaded"
  /\ IF ~HasAttr(mod[1], args.modeltype_class)
       THEN Raise("getattr", "AttributeError") /\ UNCHANGED pluginVars
     ELSE IF ~args.table_metadata.has_options
       THEN Raise("options", "KeyError") /\ UNCHANGED pluginVars
     ELSE LET kw == TrainConstructArgs(args.table_metadata) IN
          /\ calls' = Append(calls, Call("construct", kw))
          /\ UNCHANGED pluginRet
          /\ IF ~(kw \subseteq AcceptedOptions)
               THEN Raise("construct", "TypeError") /\ UNCHANGED instance
               ELSE \/ Raise("construct", "PluginError") /\ UNCHANGED instance
                    \/ /\ instance' = <<[options |-> kw, state |-> "fresh", trained_rows |-> 0]>>
                       /\ Goto("constructed")
  /\ UNCHANGED <<loaderVars, outVars, fsVars>>

TrainArgs(real_data, table_metadata) == <<real_data, table_metadata>>

TrainCallSwallow ==
  /\ args.cmd = "train" /\ pc = "constructed"
  /\ calls' = Append(calls, Call("train", TrainArgs(args.real_data, args.table_metadata)))
  /\ UNCHANGED pluginRet
  /\ \/ /\ pc' = "trained" /\ error' = "PluginError" /\ failedStep' = "train"
        /\ UNCHANGED <<run, args, exitCode, instance>>
     \/ /\ \E k \in {0, Len(args.real_data)} :
             instance' = <<[instance[1] EXCEPT !.state = "trained", !.trained_rows = k]>>
        /\ Goto("trained")
  /\ UNCHANGED <<loaderVars, outVars, fsVars>>

TrainCall ==
  /\ args.cmd = "train" /\ pc = "constructed"
  /\ calls' = Append(calls, Call("train", TrainArgs(args.real_data, args.table_metadata)))
  /\ UNCHANGED pluginRet
  /\ \/ Raise("train", "PluginError") /\ UNCHANGED instance
     \/ /\ \E k \in {0, Len(args.real_data)} :
             instance' = <<[instance[1] EXCEPT !.state = "trained", !.trained_rows = k]>>
        /\ Goto("trained")
  /\ UNCHANGED <<loaderVars, outVars, fsVars>>

(* A failing save may leave a partly written artifact behind. *)
SaveCall ==
  /\ args.cmd = "train" /\ pc = "trained"
  /\ calls' = Append(calls, Call("save", args.model_path))
  /\ UNCHANGED <<instance, pluginRet>>
  /\ \/ /\ Raise("save", "PluginError")
        /\ \E a \in {artifact[args.model_path], "partial"} :
             artifact' = [artifact EXCEPT ![args.model_path] = a]
     \/ /\ artifact' = [artifact EXCEPT ![args.model_path] = "saved"]
        /\ Goto("saved")
  /\ UNCHANGED <<loaderVars, outVars, files, pycache>>

(* len(real_data.index) *)
RowCount(real_data) == Len(real_data)

TrainInfoWithHeader(real_data) ==
  [base_table_rows |-> RowCount(real_data) + 1, trained_rows |-> RowCount(real_data) + 1]
TrainInfo(real_data) ==
  [base_table_rows |-> RowCount(real_data), trained_rows |-> RowCount(real_data)]

(* json.dumps of a flat dict: its items in insertion order *)
JsonDumpsTrainInfo(d) ==
  <<<<"base_table_rows", d.base_table_rows>>, <<"trained_rows", d.trained_rows>>>>

TrainInfoReturn ==
  /\ args.cmd = "train" /\ pc = "saved"
  /\ result' = <<JsonDumpsTrainInfo(TrainInfo(args.real_data))>>
  /\ Goto("returned")
  /\ UNCHANGED <<stdout, written, loaderVars, pluginVars, fsVars>>

TrainInfoFile(model_path) == IF model_path = "p1" THEN "p1/train_info.json" ELSE "p2/train_info.json"

WriteTrainInfo ==
  /\ args.cmd = "train" /\ pc = "returned"
  /\ files' = [files EXCEPT ![TrainInfoFile(args.model_path)] = [fmt |-> "json", text |-> result[1]]]
  /\ written' = written \cup {TrainInfoFile(args.model_path)}
  /\ pc' = "exited" /\ exitCode' = 0
  /\ UNCHANGED <<run, args, error, failedStep, result, stdout, loaderVars, pluginVars, artifact, pycache>>

----------------------------------------------------------------------------
(* synopsis subcommand and TrainDBCliModelRunner.generate_synopsis *)

NoArgs == {}

SynConstruct ==
  /\ args.cmd = "synopsis" /\ pc = "loaded"
  /\ IF ~HasAttr(mod[1], args.modeltype_class)
       THEN Raise("getattr", "AttributeError") /\ UNCHANGED pluginVars
       ELSE /\ calls' = Append(calls, Call("construct", NoArgs))
            /\ UNCHANGED pluginRet
            /\ \/ Raise("construct", "PluginError") /\ UNCHANGED instance
               \/ /\ instance' = <<[options |-> NoArgs, state |-> "fresh", trained_rows |-> 0]>>
                  /\ Goto("constructed")
  /\ UNCHANGED <<loaderVars, outVars, fsVars>>

(* The plugin's load restores a saved artifact and fails on any other. *)
PluginLoad(model_path) ==
  /\ calls' = Append(calls, Call("load", model_path))
  /\ UNCHANGED pluginRet
  /\ IF artifact[model_path] # "saved"
       THEN Raise("load", "ArtifactError") /\ UNCHANGED instance
       ELSE \/ Raise("load", "PluginError") /\ UNCHANGED instance
            \/ /\ instance' = <<[instance[1] EXCEPT !.state = "loaded"]>>
               /\ Goto("restored")

SynLoad ==
  /\ args.cmd = "synopsis" /\ pc = "constructed"
  /\ PluginLoad(args.model_path)
  /\ UNCHANGED <<loaderVars, outVars, fsVars>>

SynopsisMethod == "synopsis"

SynopsisReturnTruncated(syn_data, row_count) ==
  IF Len(syn_data) > row_count THEN SubSeq(syn_data, 1, row_count) ELSE syn_data
SynopsisReturn(syn_data, row_count) == syn_data

(* The plugin decides how many rows it produces. *)
SynopsisCall ==
  /\ args.cmd = "synopsis" /\ pc = "restored"
  /\ calls' = Append(calls, Call(SynopsisMethod, args.row_count))
  /\ UNCHANGED instance
  /\ \/ Raise("synopsis", "PluginError") /\ UNCHANGED <<pluginRet, result>>
     \/ /\ \E syn_data \in Datasets :
             /\ pluginRet' = <<syn_data>>
             /\ result' = <<SynopsisReturn(syn_data, args.row_count)>>
        /\ Goto("returned")
  /\ UNCHANGED <<stdout, written, loaderVars, fsVars>>

(* DataFrame.to_csv(index=False): a header line, then one line per row *)
ToCsv(df) == <<"header">> \o df

WriteSynopsis ==
  /\ args.cmd = "synopsis" /\ pc = "returned"
  /\ files' = [files EXCEPT ![args.output_file] = [fmt |-> "csv", text |-> ToCsv(result[1])]]
  /\ written' = written \cup {args.output_file}
  /\ pc' = "exited" /\ exitCode' = 0
  /\ UNCHANGED <<run, args, error, failedStep, result, stdout, loaderVars, pluginVars, artifact, pycache>>

----------------------------------------------------------------------------
(* infer subcommand and TrainDBCliModelRunner.infer *)

InferConstruct ==
  /\ args.cmd = "infer" /\ pc = "loaded"
  /\ IF ~HasAttr(mod[1], args.modeltype_class)
       THEN Raise("getattr", "AttributeError") /\ UNCHANGED pluginVars
       ELSE /\ calls' = Append(calls, Call("construct", NoArgs))
            /\ UNCHANGED pluginRet
            /\ \/ Raise("construct", "PluginError") /\ UNCHANGED instance
               \/ /\ instance' = <<[options |-> NoArgs, state |-> "fresh", trained_rows |-> 0]>>
                  /\ Goto("constructed")
  /\ UNCHANGED <<loaderVars, outVars, fsVars>>

InferLoad ==
  /\ args.cmd = "infer" /\ pc = "constructed"
  /\ PluginLoad(args.model_path)
  /\ UNCHANGED <<loaderVars, outVars, fsVars>>

InferArgsSwapped(agg_expr, group_by_column, where_condition) ==
  <<agg_expr, where_condition, group_by_column>>
InferArgs(agg_expr, group_by_column, where_condition) ==
  <<agg_expr, group_by_column, where_condition>>

InferCall ==
  /\ args.cmd = "infer" /\ pc = "restored"
  /\ calls' = Append(calls, Call("infer",
                 InferArgs(args.agg_expr, args.group_by_column, args.where_condition)))
  /\ UNCHANGED instance
  /\ \/ Raise("infer", "PluginError") /\ UNCHANGED <<pluginRet, result>>
     \/ /\ \E aggregate_result \in AggResults, confidence_interval \in ConfIntervals :
             /\ pluginRet' = <<<<aggregate_result, confidence_interval>>>>
             /\ result' = <<<<aggregate_result, confidence_interval>>>>
        /\ Goto("returned")
  /\ UNCHANGED <<stdout, written, loaderVars, fsVars>>

(* csv.writer.writerows: one line per row, no header *)
CsvWriteRows(rows) == [i \in 1..Len(rows) |-> [line |-> rows[i]]]

InferPrintsAlways(output_file) == TRUE
InferPrints(output_file) == output_file = ""

InferOutput ==
  /\ args.cmd = "infer" /\ pc = "returned"
  /\ LET aqp_result == result[1][1] IN
       /\ IF InferPrints(args.output_file)
            THEN stdout' = Append(stdout, [fmt |-> "repr", text |-> aqp_result])
            ELSE UNCHANGED stdout
       /\ IF args.output_file = ""
            THEN UNCHANGED <<files, written>>
            ELSE /\ files' = [files EXCEPT ![args.output_file] =
                                [fmt |-> "rows", text |-> CsvWriteRows(aqp_result)]]
                 /\ written' = written \cup {args.output_file}
  /\ pc' = "exited" /\ exitCode' = 0
  /\ UNCHANGED <<run, args, error, failedStep, result, loaderVars, pluginVars, artifact, pycache>>

----------------------------------------------------------------------------
(* list subcommand and TrainDBCliModelRunner.list_hyperparameters *)

ListGetTypeConstruct ==
  /\ args.cmd = "list" /\ pc = "loaded"
  /\ IF ~HasAttr(mod[1], args.modeltype_class)
       THEN Raise("getattr", "AttributeError") /\ UNCHANGED pluginVars
       ELSE /\ calls' = Append(calls, Call("construct", NoArgs))
            /\ instance' = <<[options |-> NoArgs, state |-> "fresh", trained_rows |-> 0]>>
            /\ UNCHANGED pluginRet
            /\ Goto("typed")
  /\ UNCHANGED <<loaderVars, outVars, fsVars>>

ListGetType ==
  /\ args.cmd = "list" /\ pc = "loaded"
  /\ IF ~HasAttr(mod[1], args.modeltype_class)
       THEN Raise("getattr", "AttributeError")
       ELSE Goto("typed")
  /\ UNCHANGED <<loaderVars, pluginVars, outVars, fsVars>>

(* json.dumps of the hyperparameter list: one item per hyperparameter *)
JsonDumpsHyperparams(info) == [i \in 1..Len(info) |-> <<"name", info[i]>>]

ListCall ==
  /\ args.cmd = "list" /\ pc = "typed"
  /\ calls' = Append(calls, Call("list_hyperparameters", NoArgs))
  /\ UNCHANGED instance
  /\ \/ Raise("list_hyperparameters", "PluginError") /\ UNCHANGED <<pluginRet, result>>
     \/ /\ \E hyperparams_info \in HyperSpecs :
             /\ pluginRet' = <<hyperparams_info>>
             /\ result' = <<JsonDumpsHyperparams(hyperparams_info)>>
        /\ Goto("returned")
  /\ UNCHANGED <<stdout, written, loaderVars, fsVars>>

WriteHyperparams ==
  /\ args.cmd = "list" /\ pc = "returned"
  /\ files' = [files EXCEPT ![args.output_file] = [fmt |-> "json", text |-> result[1]]]
  /\ written' = written \cup {args.output_file}
  /\ pc' = "exited" /\ exitCode' = 0
  /\ UNCHANGED <<run, args, error, failedStep, result, stdout, loaderVars, pluginVars, artifact, pycache>>

(* No subcommand: the help text is printed and the script ends. *)
PrintHelp ==
  /\ args.cmd = "none" /\ pc = "parsed"
  /\ stdout' = Append(stdout, [fmt |-> "help", text |-> <<>>])
  /\ pc' = "exited" /\ exitCode' = 0
  /\ UNCHANGED <<run, args, error, failedStep, result, written, loaderVars, pluginVars, fsVars>>

----------------------------------------------------------------------------
Next ==
  \/ Start
  \/ ReadTrainInputs
  \/ LoadModule
  \/ TrainConstruct
  \/ TrainCall
  \/ SaveCall
  \/ TrainInfoReturn
  \/ WriteTrainInfo
  \/ SynConstruct
  \/ SynLoad
  \/ SynopsisCall
  \/ WriteSynopsis
  \/ InferConstruct
  \/ InferLoad
  \/ InferCall
  \/ InferOutput
  \/ ListGetType
  \/ ListCall
  \/ WriteHyperparams
  \/ PrintHelp

Spec == Init /\ [][Next]_vars

----------------------------------------------------------------------------
(* Properties *)

IsPrefix(s, t) ==
  /\ Len(s) <= Len(t)
  /\ \A i \in 1..Len(s) : s[i].name = t[i].name /\ s[i].args = t[i].args

Lifecycle == {"train", "synopsis", "infer", "list"}

TrainProtocol ==
  <<Call("construct", args.table_metadata.options),
    Call("train", <<args.real_data, args.table_metadata>>),
    Call("save", args.model_path)>>

(* C1: a Train drives the plugin in the order construct(options), train,   *)
(* save: the calls made so far are always a prefix of that sequence (so    *)
(* save never precedes train and load/synopsis/infer are never called),    *)
(* and the TrainInfo exists only once all three were made and the artifact *)
(* is saved.                                                               *)
C1_TrainOrder ==
  args.cmd = "train" =>
    /\ IsPrefix(calls, TrainProtocol)
    /\ (result # <<>> \/ exitCode = 0) =>
          /\ Len(calls) = 3
          /\ artifact[args.model_path] = "saved"
          /\ instance # <<>> /\ instance[1].state = "trained"

C1_Witness ==
  /\ args.cmd = "train" /\ exitCode = 0 /\ Len(calls) = 3
  /\ args.table_metadata.options = {"epochs"}

(* C2: the TrainInfo returned by a successful Train, and the one written   *)
(* to train_info.json, carry the input's row count in both fields, also    *)
(* for the empty dataset and whatever the plugin recorded for itself.      *)
C2_TrainInfoCounts ==
  (args.cmd = "train" /\ result # <<>>) =>
    /\ result[1][1] = <<"base_table_rows", Len(args.real_data)>>
    /\ result[1][2] = <<"trained_rows", Len(args.real_data)>>
    /\ exitCode = 0 =>
         /\ files[TrainInfoFile(args.model_path)].fmt = "json"
         /\ files[TrainInfoFile(args.model_path)].text = result[1]

C2_Witness ==
  /\ args.cmd = "train" /\ exitCode = 0 /\ args.real_data = <<>>
  /\ files[TrainInfoFile(args.model_path)].fmt = "json"

SynthesizeProtocol(method) ==
  <<Call("construct", NoArgs), Call("load", args.model_path), Call(method, args.row_count)>>

ContractCapabilities ==
  {"construct", "train", "save", "load", "synthesis", "infer", "list_hyperparameters"}

SynthesizeDrives(method) ==
  args.cmd = "synopsis" =>
    /\ IsPrefix(calls, SynthesizeProtocol(method))
    /\ result # <<>> => Len(calls) = 3 /\ result = pluginRet

(* C3 as stated: Synthesize calls construct(), load(model_path) and the    *)
(* capability named synthesis, returns its dataset as-is, and calls        *)
(* nothing outside the contract's capability set.                          *)
C3_CallsSynthesis ==
  /\ SynthesizeDrives("synthesis")
  /\ \A i \in 1..Len(calls) : calls[i].name \in ContractCapabilities

(* C3 amended: Synthesize calls construct(), load(model_path) and the      *)
(* capability named synopsis with row_count, returns its dataset as-is,    *)
(* never calls train or save, and calls nothing outside the contract's     *)
(* capability set with synopsis in the place of synthesis.                 *)
C3_CallsSynopsis ==
  /\ SynthesizeDrives("synopsis")
  /\ \A i \in 1..Len(calls) :
       calls[i].name \in (ContractCapabilities \ {"synthesis"}) \cup {"synopsis"}

C3_Witness ==
  /\ args.cmd = "synopsis" /\ exitCode = 0
  /\ calls[3].name = "synopsis"
  /\ Len(result[1]) > args.row_count

InferProtocol ==
  <<Call("construct", NoArgs), Call("load", args.model_path),
    Call("infer", <<args.agg_expr, args.group_by_column, args.where_condition>>)>>

(* C4: an Infer calls construct(), load(model_path) and                    *)
(* infer(agg_expr, group_by_column, where_condition) in that order with    *)
(* the arguments unmodified, and returns the plugin's pair unchanged.      *)
C4_InferOrder ==
  args.cmd = "infer" =>
    /\ IsPrefix(calls, InferProtocol)
    /\ result # <<>> =>
         /\ Len(calls) = 3
         /\ result = pluginRet
         /\ instance # <<>> /\ instance[1].state = "loaded"

C4_Witness ==
  /\ args.cmd = "infer" /\ exitCode = 0 /\ Len(calls) = 3
  /\ result[1][1] # <<>>

(* C5: ListHyperparameters never constructs an instance and calls only     *)
(* list_hyperparameters; it leaves the artifacts alone and none of its     *)
(* failures comes from the artifact.                                       *)
C5_ListNoInstance ==
  args.cmd = "list" =>
    /\ instance = <<>>
    /\ IsPrefix(calls, <<Call("list_hyperparameters", NoArgs)>>)
    /\ exitCode = 1 =>
         /\ failedStep \in {"load_module", "getattr", "list_hyperparameters"}
         /\ error # "ArtifactError"
    /\ (pc = "returned" \/ exitCode = 0) => Len(calls) = 1 /\ result # <<>>

C5_Witness ==
  /\ args.cmd = "list" /\ exitCode = 0
  /\ \A p \in ModelPaths : artifact[p] = "absent"

(* The exception types that report an unreadable or unparsable location. *)
PluginNotFoundErrors == {"FileNotFoundError", "PermissionError", "SyntaxError"}

(* C6: when source_location is nonexistent, unreadable or unparsable, the  *)
(* process fails with a not-found error and with no other error kind.      *)
C6_BadLocationIsPluginNotFound ==
  (args.cmd \in Lifecycle /\ pc = "exited" /\ FileStatus(args.modeltype_uri) # "ok") =>
    /\ exitCode = 1
    /\ failedStep = "load_module"
    /\ error \in PluginNotFoundErrors

SymbolUnresolved ==
  /\ args.cmd \in Lifecycle
  /\ LoadOutcome(args.modeltype_uri) = "ok"
  /\ args.modeltype_class \notin DefinedSymbols(args.modeltype_uri)

(* C7 as stated: the load step itself fails when class_name is absent; it  *)
(* never returns a module in which class_name is unresolved.               *)
C7_LoadRejectsUnresolved ==
  /\ mod # <<>> => args.modeltype_class \in mod[1].symbols
  /\ (SymbolUnresolved /\ pc = "exited") => failedStep = "load_module"

(* C7 amended: when class_name is absent from the loaded code the load     *)
(* step returns the module, and the failure is the AttributeError of the   *)
(* dispatcher's attribute lookup, raised before any construct or           *)
(* capability call.                                                        *)
C7_LookupFailsBeforeCalls ==
  (SymbolUnresolved /\ pc \notin {"parsed", "read"}) =>
    /\ mod # <<>> /\ mod[1].origin = args.modeltype_uri
    /\ calls = <<>> /\ instance = <<>> /\ result = <<>>
    /\ pc \in {"loaded", "exited"}
    /\ pc = "exited" =>
         error = "AttributeError" /\ failedStep = "getattr" /\ exitCode = 1

C7_Witness ==
  /\ SymbolUnresolved /\ pc = "exited" /\ failedStep = "getattr" /\ mod # <<>>

FullProtocol ==
  CASE args.cmd = "train"    -> <<"construct", "train", "save">>
    [] args.cmd = "synopsis" -> <<"construct", "load", "synopsis">>
    [] args.cmd = "infer"    -> <<"construct", "load", "infer">>
    [] args.cmd = "list"     -> <<"list_hyperparameters">>
    [] OTHER                 -> <<>>

CallNames == [i \in 1..Len(calls) |-> calls[i].name]

FailStopState ==
  /\ exitCode = 0 => error = "none" /\ failedStep = "none" /\ CallNames = FullProtocol
  /\ error # "none" =>
       /\ pc = "exited" /\ exitCode = 1
       /\ written = {} /\ stdout = <<>> /\ result = <<>>
       /\ failedStep \in {"construct", "train", "save", "load", "synopsis", "infer",
                          "list_hyperparameters"} =>
            calls # <<>> /\ calls[Len(calls)].name = failedStep
  /\ \A i, j \in 1..Len(calls) : i # j => calls[i].name # calls[j].name

FailStopStep ==
  /\ pc = "exited" => pc' = "parsed" /\ run' = run + 1
  /\ \A p \in ModelPaths : artifact[p] # "absent" => artifact'[p] # "absent"
  /\ \A f \in FileNames : files[f].fmt # "absent" => files'[f].fmt # "absent"

(* C8: every operation is fail-stop. A failed step ends the process with a *)
(* non-zero exit: the failing call was the last one made and was made      *)
(* once, no output was printed or written, nothing on disk is removed, and *)
(* the only thing that follows is a new process; exit 0 comes only after   *)
(* the whole sequence.                                                     *)
C8_FailStop == [](FailStopState) /\ [][FailStopStep]_vars

C8_Witness ==
  /\ args.cmd = "train" /\ failedStep = "train" /\ exitCode = 1
  /\ Len(calls) = 2 /\ artifact[args.model_path] = "absent"

(* C9: for infer, an omitted output_file (the empty default) means the     *)
(* aggregate result is printed and no file is written; a given one means   *)
(* the rows of the aggregate result are written to it and nothing is       *)
(* printed; the confidence interval reaches neither.                       *)
C9_InferOutputChannel ==
  args.cmd = "infer" =>
    /\ exitCode # 0 => stdout = <<>> /\ written = {}
    /\ exitCode = 0 =>
         LET aggregate_result == pluginRet[1][1] IN
         IF args.output_file = ""
           THEN /\ stdout = <<[fmt |-> "repr", text |-> aggregate_result]>>
                /\ written = {}
           ELSE /\ stdout = <<>>
                /\ written = {args.output_file}
                /\ files[args.output_file].fmt = "rows"
                /\ files[args.output_file].text = CsvWriteRows(aggregate_result)

C9_Witness ==
  /\ args.cmd = "infer" /\ exitCode = 0 /\ args.output_file = ""
  /\ Len(stdout) = 1 /\ stdout[1].text # <<>>
  /\ files["out"].fmt = "absent"

FreshModules ==
  /\ Cardinality(moduleIds) = allLoads
  /\ mod # <<>> => mod[1].id = allLoads /\ mod[1].id \in moduleIds
  /\ sysModules = {}
  /\ loads <= 1
  /\ (args.cmd \in Lifecycle /\ pc \notin {"parsed", "read"}) => loads = 1

====
